---- MODULE Spec2Model ----
(***************************************************************************)
(* Model of src/src/game/icm.rs: the ICM equity calculator.                *)
(*                                                                         *)
(* f64 values are modelled as exact rationals <<numerator, denominator>>   *)
(* in lowest terms with a positive denominator, so every equality below is *)
(* an equality of real values (rounding is not modelled).                  *)
(* Player indices and payout indices are 0-based as in the source; the     *)
(* sequences that hold them are 1-based, hence the "+ 1" at each access.   *)
(* A u64 bitmask is modelled as the set of the bit positions that are 1.   *)
(***************************************************************************)
EXTENDS Integers, Sequences, FiniteSets, TLC

VARIABLES
    payouts,               \* ICMCalculator::payouts
    other_players_stacks,  \* ICMCalculator::other_players_stacks
    calculation_cache,     \* ICMCalculator::calculation_cache (key -> ICMEquity)
    calls,                 \* the calculate calls that have returned, in order
    solved,                \* the direct run of calculate_exact_recursive, if any
    pc,                    \* per concurrent caller: where it is in calculate
    frame                  \* per concurrent caller: its arguments and locals

vars == <<payouts, other_players_stacks, calculation_cache, calls, solved, pc, frame>>

\* ------------------------------------------------------------------ bounds
MaxStack == 2
MaxOthers == 1
MaxPayouts == 2
MaxPay == 1
MaxCalls == 3
NumCallers == 2

\* ------------------------------------------------------- program constants
MaxExactPayouts == 16
MaxExactPlayers == 64
MaskBits == 64

\* --------------------------------------------------------------- f64 values
Abs(n) == IF n < 0 THEN -n ELSE n

RECURSIVE GCD(_, _)
GCD(a, b) == IF b = 0 THEN a ELSE GCD(b, a % b)

Norm(n, d) ==
    LET g == GCD(Abs(n), Abs(d))
        s == IF d < 0 THEN -1 ELSE 1
    IN <<(s * n) \div g, (s * d) \div g>>

AsF64(i) == <<i, 1>>
Zero == AsF64(0)
FAdd(x, y) == Norm(x[1] * y[2] + y[1] * x[2], x[2] * y[2])
FMul(x, y) == Norm(x[1] * y[1], x[2] * y[2])
FDiv(x, y) == Norm(x[1] * y[2], x[2] * y[1])
FLeq(x, y) == x[1] * y[2] <= y[1] * x[2]

\* s[lo] + ... + s[hi], the range halved to keep the evaluation shallow
RECURSIVE FSumRange(_, _, _)
FSumRange(s, lo, hi) ==
    IF hi < lo THEN Zero
    ELSE IF hi = lo THEN s[lo]
    ELSE LET mid == (lo + hi) \div 2
         IN FAdd(FSumRange(s, lo, mid), FSumRange(s, mid + 1, hi))

FSum(s) == FSumRange(s, 1, Len(s))

\* ------------------------------------------------------------ exact solver
EmptyMemo == [k \in {} |-> <<>>]

\* count_ones of the mask
CountOnes(player_mask) == Cardinality(player_mask)

\* the indices i of all_stacks with (player_mask >> i) & 1 == 1, ascending
ActivePlayerIndices(all_stacks, player_mask) ==
    SelectSeq([k \in 1..Len(all_stacks) |-> k - 1], LAMBDA i : i \in player_mask)

SubTotalStacksOfAll(all_stacks, active_player_indices) == FSum(all_stacks)

\* sub_total_stacks: the stacks of the active players, added up
SubTotalStacks(all_stacks, active_player_indices) ==
    FSum([k \in 1..Len(active_player_indices) |-> all_stacks[active_player_indices[k] + 1]])

\* prob_win = winner_stacks / sub_total_stacks
ProbWin(winner_stacks, sub_total_stacks) == FDiv(winner_stacks, sub_total_stacks)

SubEquityIdxNoSkip(i, j) == IF j = 0 THEN 0 ELSE j - 1

\* position in sub_equities read for active position j when position i won
SubEquityIdx(i, j) == IF j < i THEN j ELSE j - 1

MemoKey(player_mask, payout_idx) == <<player_mask, payout_idx>>

RECURSIVE calculate_exact_recursive(_, _, _, _)

\* one iteration of "for i in 0..num_active_players": acc carries
\* total_equities (res) and the memo table as the iteration finds them
WinnerStep(all_stacks, player_mask, payout_idx, active_player_indices, sub_total_stacks, i, acc) ==
    LET winner_original_idx == active_player_indices[i + 1]
        winner_stacks == all_stacks[winner_original_idx + 1]
        prob_win == ProbWin(winner_stacks, sub_total_stacks)
        direct == [acc.res EXCEPT
                     ![i + 1] = FAdd(@, FMul(prob_win, payouts[payout_idx + 1]))]
        next_mask == player_mask \ {winner_original_idx}
    IN IF next_mask # {} /\ payout_idx + 1 < Len(payouts)
       THEN
         LET sub == calculate_exact_recursive(all_stacks, next_mask,
                                              payout_idx + 1, acc.memo)
         IN [res |-> [j1 \in 1..Len(direct) |->
                        IF j1 - 1 = i THEN direct[j1]
                        ELSE FAdd(direct[j1],
                                  FMul(prob_win,
                                       sub.res[SubEquityIdx(i, j1 - 1) + 1]))],
             memo |-> sub.memo]
       ELSE [res |-> direct, memo |-> acc.memo]

\* the iterations lo .. hi-1 of that loop, in ascending order. The range is
\* halved, and the first half's result inspected before the second half
\* starts, only to keep TLC's evaluation shallow: the value is that of the
\* plain left-to-right loop.
RECURSIVE WinnerLoop(_, _, _, _, _, _, _, _)
WinnerLoop(all_stacks, player_mask, payout_idx, active_player_indices, sub_total_stacks, lo, hi, acc) ==
    IF hi <= lo THEN acc
    ELSE IF hi = lo + 1
    THEN WinnerStep(all_stacks, player_mask, payout_idx, active_player_indices,
                    sub_total_stacks, lo, acc)
    ELSE LET mid == (lo + hi) \div 2
             first == WinnerLoop(all_stacks, player_mask, payout_idx,
                                 active_player_indices, sub_total_stacks,
                                 lo, mid, acc)
         IN IF Len(first.res) = Len(acc.res)
            THEN WinnerLoop(all_stacks, player_mask, payout_idx,
                            active_player_indices, sub_total_stacks, mid, hi, first)
            ELSE first

\* returns [res |-> the equity vector, memo |-> the memo table afterwards]
calculate_exact_recursive(all_stacks, player_mask, payout_idx, memo) ==
    IF MemoKey(player_mask, payout_idx) \in DOMAIN memo
    THEN [res |-> memo[MemoKey(player_mask, payout_idx)], memo |-> memo]
    ELSE
      LET num_active_players == CountOnes(player_mask)
          zeros == [k \in 1..num_active_players |-> Zero]
      IN IF payout_idx >= Len(payouts) \/ num_active_players = 0
         THEN [res |-> zeros, memo |-> memo]
         ELSE
           LET active_player_indices == ActivePlayerIndices(all_stacks, player_mask)
               sub_total_stacks == SubTotalStacks(all_stacks, active_player_indices)
           IN IF sub_total_stacks = Zero
              THEN [res |-> zeros, memo |-> memo]
              ELSE
                LET out == WinnerLoop(all_stacks, player_mask, payout_idx,
                                      active_player_indices, sub_total_stacks,
                                      0, num_active_players,
                                      [res |-> zeros, memo |-> memo])
                IN [res |-> out.res,
                    memo |-> (MemoKey(player_mask, payout_idx) :> out.res) @@ out.memo]

\* ------------------------------------------------------------- constructor
SeqsUpTo(S, n) == UNION {[1..k -> S] : k \in 0..n}
Ones(n) == [k \in 1..n |-> 1]

\* (other_players_stacks, payout_structure) arguments of ICMCalculator::new:
\* every small calculator, and four at the size thresholds of calculate
ConstructorInputs ==
    (SeqsUpTo(0..MaxStack, MaxOthers) \X SeqsUpTo(0..MaxPay, MaxPayouts))
    \cup {<<Ones(MaxExactPlayers - 2), <<1>>>>,
          <<Ones(MaxExactPlayers - 1), <<1>>>>,
          <<<<>>, Ones(MaxExactPayouts)>>,
          <<<<>>, Ones(MaxExactPayouts + 1)>>}

Callers == 1..NumCallers
NoFrame == [stacks_a |-> 0, stacks_b |-> 0]

Init ==
    /\ \E inp \in ConstructorInputs :
         /\ other_players_stacks = [k \in DOMAIN inp[1] |-> AsF64(inp[1][k])]
         /\ payouts = [k \in DOMAIN inp[2] |-> AsF64(inp[2][k])]
    /\ calculation_cache = EmptyMemo
    /\ calls = <<>>
    /\ solved = [run |-> FALSE]
    /\ pc = [t \in Callers |-> "idle"]
    /\ frame = [t \in Callers |-> NoFrame]

NumPlayers == Len(other_players_stacks) + 2

AllStacks(stacks_a, stacks_b) ==
    <<AsF64(stacks_a), AsF64(stacks_b)>> \o other_players_stacks

\* ------------------------------------------------ direct runs of the solver
\* the masks a direct run is given: every subset of a small table; for a
\* table at the size threshold only the empty and the full one
SolverMasks(num_players) ==
    IF num_players <= MaxOthers + 2 THEN SUBSET (0..(num_players - 1))
    ELSE {{}, 0..(num_players - 1)}

Solve(stacks_a, stacks_b, player_mask, payout_idx) ==
    /\ ~solved.run
    /\ solved' = [run |-> TRUE,
                  all_stacks |-> AllStacks(stacks_a, stacks_b),
                  player_mask |-> player_mask,
                  payout_idx |-> payout_idx,
                  res |-> calculate_exact_recursive(AllStacks(stacks_a, stacks_b),
                                                    player_mask, payout_idx,
                                                    EmptyMemo).res]
    /\ UNCHANGED <<payouts, other_players_stacks, calculation_cache, calls, pc, frame>>

\* a direct run takes a mask at the payout position at which the recursion
\* started from the full mask meets it: one position per player removed
NextExact ==
    /\ NumPlayers <= MaskBits
    /\ \E stacks_a \in 0..MaxStack, stacks_b \in 0..MaxStack :
         \E player_mask \in SolverMasks(NumPlayers) :
           Solve(stacks_a, stacks_b, player_mask,
                 NumPlayers - Cardinality(player_mask))

SpecExact == Init /\ [][NextExact]_vars

\* ---------------------------------------------------------------- calculate
Min(x, y) == IF x <= y THEN x ELSE y

CacheKey(stacks_a, stacks_b) == Min(stacks_a, stacks_b)

HitReturnNoSwap(equity, stacks_a, stacks_b) ==
    <<equity.short_stack_player, equity.deep_stack_player>>

\* what a cache hit returns: the entry turned back into (A, B) order
HitReturn(equity, stacks_a, stacks_b) ==
    IF stacks_a <= stacks_b
    THEN <<equity.short_stack_player, equity.deep_stack_player>>
    ELSE <<equity.deep_stack_player, equity.short_stack_player>>

\* the ICMEquity built from all_equities[0] and all_equities[1]
MissEntry(equities_a, equities_b, stacks_a, stacks_b) ==
    IF stacks_a <= stacks_b
    THEN [short_stack_player |-> equities_a, deep_stack_player |-> equities_b]
    ELSE [short_stack_player |-> equities_b, deep_stack_player |-> equities_a]

MissReturnCanonical(equities_a, equities_b, stacks_a, stacks_b) ==
    IF stacks_a <= stacks_b THEN <<equities_a, equities_b>>
    ELSE <<equities_b, equities_a>>

\* what the miss path returns
MissReturn(equities_a, equities_b, stacks_a, stacks_b) == <<equities_a, equities_b>>

UsesEstimateFromThreshold(num_payouts, num_players) ==
    num_payouts >= MaxExactPayouts \/ num_players >= MaxExactPlayers

UsesEstimate(num_payouts, num_players) ==
    num_payouts > MaxExactPayouts \/ num_players > MaxExactPlayers

\* u64::MAX >> (64 - num_players): bit i of the result is bit i + shift of
\* u64::MAX, which is 1 exactly when i + shift is a bit position
InitialMask(num_players) ==
    LET shift == MaskBits - num_players
    IN {i \in 0..(MaskBits - 1) : i + shift <= MaskBits - 1}

\* calculate_estimate is a Monte Carlo run: a player's estimate is an average
\* of payout amounts and zeros. calculate reads entries 0 and 1 only, and the
\* model draws each of the two from 0 and the payout amounts. With no chips
\* at all the exponents are NaN and the comparison's unwrap panics: the call
\* then neither returns nor inserts.
EstimateDefined(chip_stacks) == FSum(chip_stacks) # Zero
EstimateValues == {Zero} \cup {payouts[k] : k \in DOMAIN payouts}
calculate_estimate(chip_stacks) == EstimateValues \X EstimateValues

Put(cache, key, equity) == [k \in DOMAIN cache \cup {key} |->
                              IF k = key THEN equity ELSE cache[k]]

\* the outcome of a miss with an empty payout structure
EmptyOutcome(stacks_a, stacks_b) ==
    [key |-> stacks_a,
     entry |-> [short_stack_player |-> Zero, deep_stack_player |-> Zero],
     ret |-> <<Zero, Zero>>,
     path |-> "empty", player_mask |-> {}, payout_idx |-> 0]

\* the outcome of a miss served by the exact solver
ExactOutcome(stacks_a, stacks_b) ==
    LET initial_mask == InitialMask(NumPlayers)
        all_equities == calculate_exact_recursive(AllStacks(stacks_a, stacks_b),
                                                  initial_mask, 0, EmptyMemo).res
    IN [key |-> CacheKey(stacks_a, stacks_b),
        entry |-> MissEntry(all_equities[1], all_equities[2], stacks_a, stacks_b),
        ret |-> MissReturn(all_equities[1], all_equities[2], stacks_a, stacks_b),
        path |-> "exact", player_mask |-> initial_mask, payout_idx |-> 0]

\* the outcomes of a miss served by the estimator
EstimateOutcomes(stacks_a, stacks_b) ==
    {[key |-> CacheKey(stacks_a, stacks_b),
      entry |-> MissEntry(e[1], e[2], stacks_a, stacks_b),
      ret |-> MissReturn(e[1], e[2], stacks_a, stacks_b),
      path |-> "estimate", player_mask |-> {}, payout_idx |-> 0] :
        e \in calculate_estimate(AllStacks(stacks_a, stacks_b))}

\* every outcome of a miss
MissOutcomes(stacks_a, stacks_b) ==
    IF payouts = <<>> THEN {EmptyOutcome(stacks_a, stacks_b)}
    ELSE IF UsesEstimate(Len(payouts), NumPlayers)
    THEN IF EstimateDefined(AllStacks(stacks_a, stacks_b))
         THEN EstimateOutcomes(stacks_a, stacks_b) ELSE {}
    ELSE {ExactOutcome(stacks_a, stacks_b)}

Returned(stacks_a, stacks_b, ret, path, player_mask, payout_idx) ==
    [stacks_a |-> stacks_a, stacks_b |-> stacks_b, ret |-> ret, path |-> path,
     player_mask |-> player_mask, payout_idx |-> payout_idx]

Miss(stacks_a, stacks_b, out) ==
    /\ calculation_cache' = Put(calculation_cache, out.key, out.entry)
    /\ calls' = Append(calls, Returned(stacks_a, stacks_b, out.ret, out.path,
                                       out.player_mask, out.payout_idx))
    /\ UNCHANGED <<payouts, other_players_stacks, solved, pc, frame>>

CalculateHit(stacks_a, stacks_b) ==
    /\ Len(calls) < MaxCalls
    /\ CacheKey(stacks_a, stacks_b) \in DOMAIN calculation_cache
    /\ calls' = Append(calls,
                       Returned(stacks_a, stacks_b,
                                HitReturn(calculation_cache[CacheKey(stacks_a, stacks_b)],
                                          stacks_a, stacks_b),
                                "hit", {}, 0))
    /\ UNCHANGED <<payouts, other_players_stacks, calculation_cache, solved, pc, frame>>

CalculateEmpty(stacks_a, stacks_b) ==
    /\ Len(calls) < MaxCalls
    /\ CacheKey(stacks_a, stacks_b) \notin DOMAIN calculation_cache
    /\ payouts = <<>>
    /\ Miss(stacks_a, stacks_b, EmptyOutcome(stacks_a, stacks_b))

CalculateEstimate(stacks_a, stacks_b) ==
    /\ Len(calls) < MaxCalls
    /\ CacheKey(stacks_a, stacks_b) \notin DOMAIN calculation_cache
    /\ payouts # <<>>
    /\ UsesEstimate(Len(payouts), NumPlayers)
    /\ EstimateDefined(AllStacks(stacks_a, stacks_b))
    /\ \E out \in EstimateOutcomes(stacks_a, stacks_b) : Miss(stacks_a, stacks_b, out)

CalculateExact(stacks_a, stacks_b) ==
    /\ Len(calls) < MaxCalls
    /\ CacheKey(stacks_a, stacks_b) \notin DOMAIN calculation_cache
    /\ payouts # <<>>
    /\ ~UsesEstimate(Len(payouts), NumPlayers)
    /\ Miss(stacks_a, stacks_b, ExactOutcome(stacks_a, stacks_b))

Next ==
    \E stacks_a \in 0..MaxStack, stacks_b \in 0..MaxStack :
      \/ CalculateHit(stacks_a, stacks_b)
      \/ CalculateEmpty(stacks_a, stacks_b)
      \/ CalculateEstimate(stacks_a, stacks_b)
      \/ CalculateExact(stacks_a, stacks_b)

Spec == Init /\ [][Next]_vars

\* ------------------------------------------------- concurrent calculate calls
\* Each caller runs calculate once. The cache is a DashMap: get and insert are
\* atomic, and everything between them works on the caller's own locals.

\* line 46: the lookup finds an entry and the call returns
LookupHit(t, stacks_a, stacks_b) ==
    /\ pc[t] = "idle"
    /\ CacheKey(stacks_a, stacks_b) \in DOMAIN calculation_cache
    /\ pc' = [pc EXCEPT ![t] = "done"]
    /\ frame' = [frame EXCEPT ![t] =
                   [stacks_a |-> stacks_a, stacks_b |-> stacks_b, path |-> "hit",
                    ret |-> HitReturn(calculation_cache[CacheKey(stacks_a, stacks_b)],
                                      stacks_a, stacks_b)]]
    /\ UNCHANGED <<payouts, other_players_stacks, calculation_cache, calls, solved>>

\* line 46: the lookup finds nothing; the caller computes its result
LookupMiss(t, stacks_a, stacks_b) ==
    /\ pc[t] = "idle"
    /\ CacheKey(stacks_a, stacks_b) \notin DOMAIN calculation_cache
    /\ \E out \in MissOutcomes(stacks_a, stacks_b) :
         frame' = [frame EXCEPT ![t] =
                     [stacks_a |-> stacks_a, stacks_b |-> stacks_b, path |-> out.path,
                      ret |-> out.ret, key |-> out.key, entry |-> out.entry]]
    /\ pc' = [pc EXCEPT ![t] = "insert"]
    /\ UNCHANGED <<payouts, other_players_stacks, calculation_cache, calls, solved>>

\* line 59 or 94: the insert, after which the call returns
Insert(t) ==
    /\ pc[t] = "insert"
    /\ calculation_cache' = Put(calculation_cache, frame[t].key, frame[t].entry)
    /\ pc' = [pc EXCEPT ![t] = "done"]
    /\ UNCHANGED <<payouts, other_players_stacks, calls, solved, frame>>

NextConc ==
    \E t \in Callers :
      \/ \E stacks_a \in 0..MaxStack, stacks_b \in 0..MaxStack :
           \/ LookupHit(t, stacks_a, stacks_b)
           \/ LookupMiss(t, stacks_a, stacks_b)
      \/ Insert(t)

SpecConc == Init /\ [][NextConc]_vars

\* ==================================================================== claims
OnExactPath == ~UsesEstimate(Len(payouts), NumPlayers)

\* what calculate returns on a newly constructed calculator (exact path)
FreshReturn(stacks_a, stacks_b) ==
    IF payouts = <<>> THEN EmptyOutcome(stacks_a, stacks_b).ret
    ELSE ExactOutcome(stacks_a, stacks_b).ret

SameTotalThroughout ==
    \A i, j \in DOMAIN calls :
      calls[i].stacks_a + calls[i].stacks_b = calls[j].stacks_a + calls[j].stacks_b

SameArgs(i, j) ==
    /\ calls[i].stacks_a = calls[j].stacks_a
    /\ calls[i].stacks_b = calls[j].stacks_b

\* C1: on the exact path every calculate call, whatever calls came before it,
\* returns the pair a newly constructed calculator returns for its arguments
\* (a cache hit never serves equities computed for another pair of stacks).
C1_ReturnsFreshResult ==
    OnExactPath =>
      \A i \in DOMAIN calls :
        calls[i].ret = FreshReturn(calls[i].stacks_a, calls[i].stacks_b)

\* C2: if calculate(x, y) returned (e1, e2), a later calculate(y, x) on the
\* same calculator returns (e2, e1), the tie x = y included. Stated for the
\* calculators on the exact path, where the two equities of one call to the
\* solver are not random.
C2_SwapSymmetry ==
    OnExactPath =>
      \A i, j \in DOMAIN calls :
        (/\ i < j
         /\ calls[j].stacks_a = calls[i].stacks_b
         /\ calls[j].stacks_b = calls[i].stacks_a)
        => calls[j].ret = <<calls[i].ret[2], calls[i].ret[1]>>

\* C3: on the exact path two calls with identical arguments return identical
\* pairs, whatever calls are made between them.
C3_RepeatedCallsAgree ==
    OnExactPath =>
      \A i, j \in DOMAIN calls :
        (i < j /\ SameArgs(i, j)) => calls[j].ret = calls[i].ret

\* a computed call with unequal equities, another call, then the same
\* arguments served from the cache
C3_Witness ==
    /\ OnExactPath
    /\ \E i, j \in DOMAIN calls :
         /\ i + 1 < j
         /\ SameArgs(i, j)
         /\ ~SameArgs(i, i + 1)
         /\ calls[i].path = "exact"
         /\ calls[j].path = "hit"
         /\ calls[i].stacks_a > calls[i].stacks_b
         /\ calls[i].ret[1] # calls[i].ret[2]

\* C8: a miss with non-empty payouts uses the estimator exactly when there
\* are more than 16 payouts or more than 64 players; otherwise it runs the
\* exact solver from payout position 0 with exactly the bits
\* 0 .. playerCount-1 set.
C8_StrategyBySize ==
    \A i \in DOMAIN calls :
      (calls[i].path # "hit" /\ payouts # <<>>) =>
        /\ calls[i].path \in {"exact", "estimate"}
        /\ calls[i].path = "estimate" <=>
             (Len(payouts) > MaxExactPayouts
              \/ Len(other_players_stacks) + 2 > MaxExactPlayers)
        /\ calls[i].path = "exact" =>
             /\ calls[i].payout_idx = 0
             /\ calls[i].player_mask = 0..(Len(other_players_stacks) + 1)

\* the exact solver ran for a table of exactly 64 players
C8_Witness ==
    /\ Len(other_players_stacks) + 2 = MaxExactPlayers
    /\ \E i \in DOMAIN calls :
         /\ calls[i].path = "exact"
         /\ Cardinality(calls[i].player_mask) = MaxExactPlayers

\* C10: every key of the equity cache is min(stackA, stackB) of an earlier
\* call and its value is that call's (short-stack, deep-stack) pair, on every
\* miss path.
C10_CacheKeysCanonical ==
    \A k \in DOMAIN calculation_cache :
      \E i \in DOMAIN calls :
        /\ k = Min(calls[i].stacks_a, calls[i].stacks_b)
        /\ calculation_cache[k] =
             MissEntry(calls[i].ret[1], calls[i].ret[2],
                       calls[i].stacks_a, calls[i].stacks_b)

NonIncreasing(seq) ==
    \A k \in 1..(Len(seq) - 1) : FLeq(seq[k + 1], seq[k])

\* the players of player_mask in ascending order of index
MaskOrder(num_players, player_mask) ==
    SelectSeq([k \in 1..num_players |-> k - 1], LAMBDA i : i \in player_mask)

\* The expected payout of `player` from the places place, place + 1, ... when
\* the places are filled in order and the player taking the next one is drawn
\* from `remaining` with probability stack / (sum of the remaining stacks);
\* nobody can be drawn from a set that holds no chips.
RECURSIVE PlaceValue(_, _, _, _)
PlaceValue(all_stacks, remaining, place, player) ==
    IF place >= Len(payouts) \/ player \notin remaining THEN Zero
    ELSE
      LET order == MaskOrder(Len(all_stacks), remaining)
          chips == FSum([k \in 1..Len(order) |-> all_stacks[order[k] + 1]])
      IN IF chips = Zero THEN Zero
         ELSE FSum([k \in 1..Len(order) |->
                IF order[k] = player
                THEN FMul(FDiv(all_stacks[player + 1], chips), payouts[place + 1])
                ELSE FMul(FDiv(all_stacks[order[k] + 1], chips),
                          PlaceValue(all_stacks, remaining \ {order[k]},
                                     place + 1, player))])

FullRun ==
    /\ solved.run
    /\ solved.player_mask = 0..(Len(solved.all_stacks) - 1)
    /\ solved.payout_idx = 0

PositiveStacks(all_stacks) ==
    Cardinality({k \in DOMAIN all_stacks : all_stacks[k] # Zero})

\* C4 as claimed: the vector the exact solver returns for the full mask at
\* payout position 0 sums to the sum of the whole payout structure.
C4_SumsToAllPayouts ==
    FullRun => FSum(solved.res) = FSum(payouts)

\* C4 as amended: for non-negative stacks that vector sums to the sum of the
\* payouts that can be awarded, the first min(payout count, number of players
\* with a positive stack) of them.
C4_SumsToAwardablePayouts ==
    FullRun =>
      FSum(solved.res) =
        FSum(SubSeq(payouts, 1, Min(Len(payouts), PositiveStacks(solved.all_stacks))))

\* a full run over three players of whom only one holds chips, with two
\* payouts that are not zero: the second cannot be awarded
C4_Witness ==
    /\ FullRun
    /\ Len(solved.all_stacks) = 3
    /\ PositiveStacks(solved.all_stacks) = 1
    /\ Len(payouts) = 2
    /\ payouts[1] # Zero
    /\ payouts[2] # Zero
    /\ FSum(solved.res) = payouts[1]

EqualStacks(i) ==
    /\ calls[i].stacks_a = calls[i].stacks_b
    /\ \A k \in DOMAIN other_players_stacks :
         other_players_stacks[k] = AsF64(calls[i].stacks_a)

Computed(t) == pc[t] # "idle" /\ frame[t].path # "hit"

\* C7: concurrent calls on the exact path that share a cache key may all
\* miss and compute; in every interleaving each call returns the equities of
\* its own arguments, and the entries they insert for that key are equal, so
\* that the entry left does not depend on which insert is last.
C7_ConcurrentCallsAgree ==
    OnExactPath =>
      /\ \A t \in Callers :
           pc[t] = "done" =>
             frame[t].ret = FreshReturn(frame[t].stacks_a, frame[t].stacks_b)
      /\ \A t, u \in Callers :
           (Computed(t) /\ Computed(u) /\ frame[t].key = frame[u].key)
             => frame[t].entry = frame[u].entry
====
